---- MODULE Spec2Model ----
(***************************************************************************)
(* Model of the collection resolver of the curriculum planning API         *)
(* (app/services/qdrant_service.py) and of its caller                      *)
(* (app/services/terms_plan.py).                                           *)
(*                                                                         *)
(* A Python str is a sequence of one-character strings, so that lower(),   *)
(* strip(), replace(), split(), "in" and difflib's ratio are computed      *)
(* character by character as CPython computes them.                        *)
(***************************************************************************)
EXTENDS Integers, Sequences, FiniteSets

(***************************************************************************)
(* Bound of the model: the largest registry list that is explored.         *)
(***************************************************************************)
MaxRegistry == 2

(***************************************************************************)
(* str primitives                                                          *)
(***************************************************************************)
UpperCase ==
  <<"A", "B", "C", "D", "E", "F", "G", "H", "I", "J", "K", "L", "M",
    "N", "O", "P", "Q", "R", "S", "T", "U", "V", "W", "X", "Y", "Z">>

LowerCase ==
  <<"a", "b", "c", "d", "e", "f", "g", "h", "i", "j", "k", "l", "m",
    "n", "o", "p", "q", "r", "s", "t", "u", "v", "w", "x", "y", "z">>

\* the characters str.strip() removes when called without argument
Whitespace == {" ", "\t", "\n", "\r"}

lower_char(ch) ==
  IF \E i \in DOMAIN UpperCase : UpperCase[i] = ch
    THEN LowerCase[CHOOSE i \in DOMAIN UpperCase : UpperCase[i] = ch]
    ELSE ch

\* str.lower()
lower(s) == [i \in DOMAIN s |-> lower_char(s[i])]

RECURSIVE lstrip(_)
lstrip(s) ==
  IF s # <<>> /\ Head(s) \in Whitespace THEN lstrip(Tail(s)) ELSE s

RECURSIVE rstrip(_)
rstrip(s) ==
  IF s # <<>> /\ s[Len(s)] \in Whitespace
    THEN rstrip(SubSeq(s, 1, Len(s) - 1))
    ELSE s

\* str.strip()
strip(s) == rstrip(lstrip(s))

\* s.startswith(p)
startswith(s, p) == Len(p) <= Len(s) /\ SubSeq(s, 1, Len(p)) = p

\* s.endswith(p)
endswith(s, p) ==
  Len(p) <= Len(s) /\ SubSeq(s, Len(s) - Len(p) + 1, Len(s)) = p

\* "sub in s" for two str
contains(s, sub) ==
  \E i \in 0..(Len(s) - Len(sub)) : SubSeq(s, i + 1, i + Len(sub)) = sub

\* s.replace(old, new) for a non-empty old: every non-overlapping occurrence,
\* scanning from the left
RECURSIVE replace(_, _, _)
replace(s, old, new) ==
  IF s = <<>> THEN <<>>
  ELSE IF startswith(s, old)
    THEN new \o replace(SubSeq(s, Len(old) + 1, Len(s)), old, new)
    ELSE <<Head(s)>> \o replace(Tail(s), old, new)

\* s.split(sep) for a one-character sep: the list of the fields
RECURSIVE split(_, _)
split(s, sep) ==
  IF \E i \in DOMAIN s : s[i] = sep
    THEN LET i == CHOOSE k \in DOMAIN s :
                    s[k] = sep /\ \A m \in 1..(k - 1) : s[m] # sep
         IN  <<SubSeq(s, 1, i - 1)>> \o split(SubSeq(s, i + 1, Len(s)), sep)
    ELSE <<s>>

(***************************************************************************)
(* difflib.SequenceMatcher (no junk: isjunk is None and the autojunk       *)
(* heuristic only applies to sequences of 200 elements or more)            *)
(***************************************************************************)
\* length of the common run of a from i and b from j, inside a[..ahi), b[..bhi)
RECURSIVE match_len(_, _, _, _, _, _)
match_len(a, b, i, j, ahi, bhi) ==
  IF i < ahi /\ j < bhi /\ a[i] = b[j]
    THEN 1 + match_len(a, b, i + 1, j + 1, ahi, bhi)
    ELSE 0

\* SequenceMatcher.find_longest_match: the longest block of a[alo..ahi) and
\* b[blo..bhi); of the longest, the one starting earliest in a, and of those
\* the one starting earliest in b
find_longest_match(a, b, alo, ahi, blo, bhi) ==
  LET blocks == {<<i, j, match_len(a, b, i, j, ahi, bhi)>> :
                   i \in alo..(ahi - 1), j \in blo..(bhi - 1)}
      found  == {m \in blocks : m[3] > 0}
  IN  IF found = {} THEN <<alo, blo, 0>>
      ELSE CHOOSE m \in found :
             \A o \in found :
               \/ m[3] > o[3]
               \/ m[3] = o[3] /\ m[1] < o[1]
               \/ m[3] = o[3] /\ m[1] = o[1] /\ m[2] <= o[2]

\* number of matched characters of SequenceMatcher.get_matching_blocks
RECURSIVE matches(_, _, _, _, _, _)
matches(a, b, alo, ahi, blo, bhi) ==
  LET m == find_longest_match(a, b, alo, ahi, blo, bhi)
  IN  IF m[3] = 0 THEN 0
      ELSE m[3] + matches(a, b, alo, m[1], blo, m[2])
                + matches(a, b, m[1] + m[3], ahi, m[2] + m[3], bhi)

\* SequenceMatcher.ratio() >= cutoff for cutoff = 0.6:
\* 2.0 * matches / (len(a) + len(b)) >= 0.6, and 1.0 when both are empty
ratio_ok(a, b) ==
  LET length == Len(a) + Len(b)
  IN  IF length = 0 THEN TRUE
      ELSE 10 * matches(a, b, 1, Len(a) + 1, 1, Len(b) + 1) >= 3 * length

\* difflib.get_close_matches(word, possibilities, n=1, cutoff=0.6): the
\* possibilities that pass the cutoff (the caller only tests for emptiness)
get_close_matches(word, possibilities) ==
  {possibilities[i] : i \in {k \in DOMAIN possibilities :
                                ratio_ok(possibilities[k], word)}}

(***************************************************************************)
(* Names that are bound where get_best_matching_collection runs: the       *)
(* module's imports and definitions, and the two imports the function      *)
(* makes itself.  Using any other name raises NameError.                   *)
(***************************************************************************)
module_names ==
  {"logging", "List", "Dict", "Any", "Optional", "QdrantClient", "models",
   "UnexpectedResponse", "settings", "SourceDocument", "logger",
   "QdrantService", "qdrant_service", "get_best_matching_collection",
   "get_query_engine"}

function_names == {"status", "get_close_matches"}

\* raise name(status_code=..., detail=...): the name is looked up before the
\* arguments are evaluated
raise_exception(name, status_code, detail) ==
  IF name \in module_names \cup function_names
    THEN [type |-> name, status_code |-> status_code, detail |-> detail]
    ELSE [type |-> "NameError",
          message |-> <<"name '", name, "' is not defined">>]

(***************************************************************************)
(* get_best_matching_collection                                            *)
(***************************************************************************)
\* the normalisation of both inputs
normalize(term) == replace(strip(lower(term)), <<" ">>, <<"_">>)

\* the dict of common typos and variations, in insertion order
variations ==
  << <<(<<"c", "o", "l", "u", "m", "b", "i", "a">>),
       (<<"c", "o", "l", "a", "m", "b", "i", "a">>)>>,
     <<(<<"m", "a", "t", "h", "s">>),
       (<<"m", "a", "t", "h">>)>>,
     <<(<<"m", "a", "t", "h", "e", "m", "a", "t", "i", "c", "s">>),
       (<<"m", "a", "t", "h">>)>>,
     <<(<<"s", "c", "i">>),
       (<<"s", "c", "i", "e", "n", "c", "e">>)>>,
     <<(<<"e", "n", "g">>),
       (<<"e", "n", "g", "l", "i", "s", "h">>)>>,
     <<(<<"l", "a", "n", "g">>),
       (<<"l", "a", "n", "g", "u", "a", "g", "e">>)>>,
     <<(<<"l", "i", "t">>),
       (<<"l", "i", "t", "e", "r", "a", "t", "u", "r", "e">>)>> >>

get_variations(term) ==
  LET plural == IF endswith(term, <<"s">>)
                  THEN SubSeq(term, 1, Len(term) - 1)
                  ELSE term \o <<"s">>
      forward == {replace(term, variations[i][1], variations[i][2]) :
                    i \in {k \in DOMAIN variations :
                             contains(term, variations[k][1])}}
      backward == {replace(term, variations[i][2], variations[i][1]) :
                     i \in {k \in DOMAIN variations :
                              contains(term, variations[k][2])}}
  IN  {term, plural} \cup forward \cup backward

\* the substring rules with "if" in place of "elif": both additions are made
partial_score_both_added(has_curriculum, has_subject) ==
  (IF has_curriculum /\ has_subject THEN 80 ELSE 0)
  + (IF has_curriculum \/ has_subject THEN 40 ELSE 0)

\* the score of the substring rules
partial_score(has_curriculum, has_subject) ==
  IF has_curriculum /\ has_subject THEN 80
  ELSE IF has_curriculum \/ has_subject THEN 40
  ELSE 0

\* the score of the difflib rules
close_score(curriculum_matches, subject_matches) ==
  IF curriculum_matches # {} /\ subject_matches # {} THEN 70
  ELSE IF curriculum_matches # {} \/ subject_matches # {} THEN 35
  ELSE 0

has_term(term, name) == \E t \in get_variations(term) : contains(name, t)

score_collection(norm_curriculum, norm_subject, collection_name) ==
  LET name == lower(collection_name)
      parts == split(name, "_")
  IN  IF norm_curriculum \o <<"_">> \o norm_subject = name THEN 100
      ELSE IF \E c \in get_variations(norm_curriculum) :
                \E s \in get_variations(norm_subject) :
                  c \o <<"_">> \o s = name
        THEN 95
      ELSE partial_score(has_term(norm_curriculum, name),
                         has_term(norm_subject, name))
           + close_score(get_close_matches(norm_curriculum, parts),
                         get_close_matches(norm_subject, parts))

\* a descending sort that puts an item ahead of the items of equal score
insert_by_score_ahead(sorted, item) ==
  LET k == Cardinality({i \in DOMAIN sorted : sorted[i][2] > item[2]})
  IN  SubSeq(sorted, 1, k) \o <<item>> \o SubSeq(sorted, k + 1, Len(sorted))

\* list.sort(key=score, reverse=True) is stable: an item goes behind every
\* item whose score is at least its own
insert_by_score(sorted, item) ==
  LET k == Cardinality({i \in DOMAIN sorted : sorted[i][2] >= item[2]})
  IN  SubSeq(sorted, 1, k) \o <<item>> \o SubSeq(sorted, k + 1, Len(sorted))

RECURSIVE sort_by_score(_, _)
sort_by_score(items, n) ==
  IF n = 0 THEN <<>>
  ELSE insert_by_score(sort_by_score(items, n - 1), items[n])

\* dict(pairs): one entry per key, at the place of the key's first pair and
\* with the value of its last pair
to_dict(pairs) ==
  LET firsts == {i \in DOMAIN pairs :
                   \A j \in 1..(i - 1) : pairs[j][1] # pairs[i][1]}
      last(key) == CHOOSE i \in DOMAIN pairs :
                     /\ pairs[i][1] = key
                     /\ \A j \in (i + 1)..Len(pairs) : pairs[j][1] # key
      RECURSIVE build(_)
      build(i) ==
        IF i > Len(pairs) THEN <<>>
        ELSE IF i \in firsts
          THEN << <<pairs[i][1], pairs[last(pairs[i][1])][2]>> >>
               \o build(i + 1)
          ELSE build(i + 1)
  IN  build(1)

\* the test with the close-match score of one term as the threshold
is_good_match_at_35(scored) == scored # <<>> /\ scored[1][2] >= 35

\* the lowercased copy of the name that score_collection compared
best_match_lowered(scored) == lower(scored[1][1])

\* best_match = scored_collections[0][0]
best_match(scored) == scored[1][1]

\* the test that guards "return best_match"
is_good_match(scored) == scored # <<>> /\ scored[1][2] >= 40

(***************************************************************************)
(* The requests and the collections that are explored                      *)
(***************************************************************************)
\* request.curriculum: "Ontario", "x", "Common   Core", "Quebec"
Curricula ==
  {(<<"O", "n", "t", "a", "r", "i", "o">>),
   (<<"x">>),
   (<<"C", "o", "m", "m", "o", "n", " ", " ", " ", "C", "o", "r", "e">>),
   (<<"Q", "u", "e", "b", "e", "c">>)}

\* request.subject: "Math", " maths", "Science", "History"
Subjects ==
  {(<<"M", "a", "t", "h">>),
   (<<" ", "m", "a", "t", "h", "s">>),
   (<<"S", "c", "i", "e", "n", "c", "e">>),
   (<<"H", "i", "s", "t", "o", "r", "y">>)}

\* names of Qdrant collections: "ontario_math", "ontario_math_2",
\* "Ontario_Math", "b_math", "a_math", "ontario_science",
\* "common_core_science", "ontari_mat"
CollectionNames ==
  {(<<"o", "n", "t", "a", "r", "i", "o", "_", "m", "a", "t", "h">>),
   (<<"o", "n", "t", "a", "r", "i", "o", "_", "m", "a", "t", "h", "_", "2">>),
   (<<"O", "n", "t", "a", "r", "i", "o", "_", "M", "a", "t", "h">>),
   (<<"b", "_", "m", "a", "t", "h">>),
   (<<"a", "_", "m", "a", "t", "h">>),
   (<<"o", "n", "t", "a", "r", "i", "o", "_", "s", "c", "i", "e", "n", "c", "e">>),
   (<<"c", "o", "m", "m", "o", "n", "_", "c", "o", "r", "e", "_", "s", "c", "i", "e", "n", "c", "e">>),
   (<<"o", "n", "t", "a", "r", "i", "_", "m", "a", "t">>)}

\* the lists client.get_collections() can give: Qdrant keeps names unique
Registries ==
  UNION {{r \in [1..n -> CollectionNames] :
            \A i, j \in 1..n : i # j => r[i] # r[j]} : n \in 0..MaxRegistry}

VARIABLES
  registry,            \* the collections of the Qdrant server, in list order
  request,             \* the CurriculumRequest being served
  pc,                  \* position of generate_terms_plan
  collection_names,    \* get_best_matching_collection: the list it read
  norm_curriculum,     \* get_best_matching_collection: normalised curriculum
  norm_subject,        \* get_best_matching_collection: normalised subject
  scored_collections,  \* get_best_matching_collection: the sorted score list
  resolver,            \* how get_best_matching_collection ended
  response,            \* how generate_terms_plan ended
  collection_name,     \* generate_terms_plan: the identifier it was given
  engine,              \* the arguments get_query_engine was called with
  calls,               \* the calls generate_terms_plan made, in order
  lesson_request,      \* the LessonPlanRequest being served
  lesson_pc,           \* position of POST /lesson_plan
  groq_api_key,        \* settings.GROQ_API_KEY is set
  groq_calls,          \* number of calls of client.chat.completions.create
  completion,          \* what the Groq API answered
  generated,           \* how generate_lesson_plans ended
  lesson_response,     \* how create_lesson_plan ended
  invocations          \* the concurrent calls of the resolver

\* the state of POST /terms_plan
terms_vars ==
  <<request, pc, collection_names, norm_curriculum, norm_subject,
    scored_collections, resolver, response, collection_name, engine, calls>>

\* the state of POST /lesson_plan
lesson_vars ==
  <<lesson_request, lesson_pc, groq_api_key, groq_calls, completion,
    generated, lesson_response>>

vars == <<registry, terms_vars, lesson_vars, invocations>>

none == [kind |-> "none"]

\* the body of get_best_matching_collection once the list has been read
get_best_matching_collection(curriculum, subject, names) ==
  IF names = <<>>
    THEN [collection_names |-> names,
          norm_curriculum |-> <<>>,
          norm_subject |-> <<>>,
          scored_collections |-> <<>>,
          outcome |-> [kind |-> "raise",
                       exc |-> raise_exception("HTTPException", 404,
                                 "No collections found in Qdrant")]]
    ELSE
      LET nc == normalize(curriculum)
          ns == normalize(subject)
          unsorted == [i \in DOMAIN names |->
                         <<names[i], score_collection(nc, ns, names[i])>>]
          scored == sort_by_score(unsorted, Len(unsorted))
      IN  [collection_names |-> names,
           norm_curriculum |-> nc,
           norm_subject |-> ns,
           scored_collections |-> scored,
           outcome |->
             IF is_good_match(scored)
               THEN [kind |-> "return", value |-> best_match(scored)]
               ELSE [kind |-> "raise",
                     exc |-> raise_exception("HTTPException", 404,
                       [error |-> "No matching collection found",
                        available_collections |-> names,
                        requested_curriculum |-> curriculum,
                        requested_subject |-> subject,
                        matching_scores |-> to_dict(scored)])]]

\* str(e) of an exception
str_of(exc) ==
  IF exc.type = "HTTPException"
    THEN <<exc.status_code, ": ", exc.detail>>
    ELSE exc.message

\* generate_terms_plan without its "except Exception" clause
handle_exception_reraising(exc) == [kind |-> "raise", exc |-> exc]

\* the two except clauses of generate_terms_plan
handle_exception(exc) ==
  IF exc.type = "HTTPException"
    THEN [kind |-> "raise", exc |-> exc]
    ELSE [kind |-> "raise",
          exc |-> [type |-> "HTTPException",
                   status_code |-> 500,
                   detail |-> [error |-> <<"Failed to generate terms plan: ",
                                           str_of(exc)>>]]]

\* an error of the Qdrant client or of the query engine
external_error ==
  [type |-> "UnexpectedResponse", message |-> "qdrant request failed"]

\* CurriculumRequest.top_k when the request leaves it out
default_top_k == 5

\* the locals of a handler that has not run yet
NotStarted ==
  /\ collection_names = <<>>
  /\ norm_curriculum = <<>>
  /\ norm_subject = <<>>
  /\ scored_collections = <<>>
  /\ resolver = none
  /\ response = none
  /\ collection_name = <<>>
  /\ engine = none
  /\ calls = <<>>

\* POST /lesson_plan is not being served
LessonIdle ==
  /\ lesson_request = none
  /\ lesson_pc = "idle"
  /\ groq_api_key = TRUE
  /\ groq_calls = 0
  /\ completion = none
  /\ generated = none
  /\ lesson_response = none

\* generate_terms_plan is entered with a request that leaves top_k out
Init ==
  /\ registry \in Registries
  /\ request \in [curriculum : Curricula, subject : Subjects,
                  top_k : {default_top_k}]
  /\ pc = "resolve"
  /\ NotStarted
  /\ LessonIdle
  /\ invocations = <<>>

\* a resolver that is called again after it failed
Resolve_retrying ==
  /\ pc = "resolve"
  /\ \E r \in {get_best_matching_collection(request.curriculum,
                                             request.subject, registry)} :
         /\ collection_names' = r.collection_names
         /\ norm_curriculum' = r.norm_curriculum
         /\ norm_subject' = r.norm_subject
         /\ scored_collections' = r.scored_collections
         /\ resolver' = r.outcome
         /\ IF r.outcome.kind = "return"
              THEN pc' = "engine" /\ collection_name' = r.outcome.value
              ELSE pc' = "resolve" /\ collection_name' = collection_name
  /\ calls' = Append(calls, "get_best_matching_collection")
  /\ UNCHANGED <<registry, request, engine, response>>
  /\ UNCHANGED <<lesson_vars, invocations>>

\* generate_terms_plan calls get_best_matching_collection, which reads the
\* list of collections and resolves the request against it
Resolve ==
  /\ pc = "resolve"
  /\ \E r \in {get_best_matching_collection(request.curriculum,
                                             request.subject, registry)} :
         /\ collection_names' = r.collection_names
         /\ norm_curriculum' = r.norm_curriculum
         /\ norm_subject' = r.norm_subject
         /\ scored_collections' = r.scored_collections
         /\ resolver' = r.outcome
         /\ IF r.outcome.kind = "return"
              THEN /\ pc' = "engine"
                   /\ collection_name' = r.outcome.value
                   /\ response' = response
              ELSE /\ pc' = "done"
                   /\ collection_name' = collection_name
                   /\ response' = handle_exception(r.outcome.exc)
  /\ calls' = Append(calls, "get_best_matching_collection")
  /\ UNCHANGED <<registry, request, engine>>
  /\ UNCHANGED <<lesson_vars, invocations>>

\* client.get_collections() fails: the resolver re-raises the error
ResolveFails ==
  /\ pc = "resolve"
  /\ resolver' = [kind |-> "raise", exc |-> external_error]
  /\ response' = handle_exception(external_error)
  /\ pc' = "done"
  /\ calls' = Append(calls, "get_best_matching_collection")
  /\ UNCHANGED <<registry, request, collection_names, norm_curriculum,
                 norm_subject, scored_collections, collection_name, engine>>
  /\ UNCHANGED <<lesson_vars, invocations>>

\* get_query_engine called without top_k, which then takes its default 5
GetQueryEngine_default_top_k ==
  /\ pc = "engine"
  /\ engine' = [kind |-> "built", collection_name |-> collection_name,
                top_k |-> 5]
  /\ calls' = Append(calls, "get_query_engine")
  /\ pc' = "query"
  /\ UNCHANGED <<registry, request, collection_names, norm_curriculum,
                 norm_subject, scored_collections, resolver, response,
                 collection_name>>
  /\ UNCHANGED <<lesson_vars, invocations>>

\* get_query_engine(collection_name, top_k) builds the engine
GetQueryEngine ==
  /\ pc = "engine"
  /\ engine' = [kind |-> "built", collection_name |-> collection_name,
                top_k |-> request.top_k]
  /\ calls' = Append(calls, "get_query_engine")
  /\ pc' = "query"
  /\ UNCHANGED <<registry, request, collection_names, norm_curriculum,
                 norm_subject, scored_collections, resolver, response,
                 collection_name>>
  /\ UNCHANGED <<lesson_vars, invocations>>

\* get_query_engine raises
GetQueryEngineFails ==
  /\ pc = "engine"
  /\ engine' = [kind |-> "failed", collection_name |-> collection_name,
                top_k |-> request.top_k]
  /\ calls' = Append(calls, "get_query_engine")
  /\ response' = handle_exception(external_error)
  /\ pc' = "done"
  /\ UNCHANGED <<registry, request, collection_names, norm_curriculum,
                 norm_subject, scored_collections, resolver,
                 collection_name>>
  /\ UNCHANGED <<lesson_vars, invocations>>

\* a is an element of the list
in_list(a, list) == \E i \in DOMAIN list : list[i] = a

\* query_engine.query(request.query) answers, which takes the collection to
\* be on the server, and the RAGResponse is returned
Query ==
  /\ pc = "query"
  /\ in_list(engine.collection_name, registry)
  /\ response' = [kind |-> "return",
                  value |-> [success |-> TRUE,
                             collection_used |-> collection_name]]
  /\ calls' = Append(calls, "query")
  /\ pc' = "done"
  /\ UNCHANGED <<registry, request, collection_names, norm_curriculum,
                 norm_subject, scored_collections, resolver,
                 collection_name, engine>>
  /\ UNCHANGED <<lesson_vars, invocations>>

\* query_engine.query raises
QueryFails ==
  /\ pc = "query"
  /\ response' = handle_exception(external_error)
  /\ calls' = Append(calls, "query")
  /\ pc' = "done"
  /\ UNCHANGED <<registry, request, collection_names, norm_curriculum,
                 norm_subject, scored_collections, resolver,
                 collection_name, engine>>
  /\ UNCHANGED <<lesson_vars, invocations>>

Next ==
  \/ Resolve
  \/ ResolveFails
  \/ GetQueryEngine
  \/ GetQueryEngineFails
  \/ Query
  \/ QueryFails

Spec == Init /\ [][Next]_vars

(***************************************************************************)
(* POST /terms_plan from the request body on, while collections are        *)
(* deleted from the server                                                 *)
(***************************************************************************)
\* top_k: int = Field(5, ge=1, le=10)
min_top_k == 1

max_top_k == 10

\* the top_k values a request body can carry that are explored
RawTopKs == (min_top_k - 1)..(max_top_k + 1)

\* request.curriculum: "Ontario", "x"
TermsCurricula ==
  {(<<"O", "n", "t", "a", "r", "i", "o">>),
   (<<"x">>)}

\* request.subject: "Math", "History"
TermsSubjects ==
  {(<<"M", "a", "t", "h">>),
   (<<"H", "i", "s", "t", "o", "r", "y">>)}

\* names of Qdrant collections: "Ontario_Math", "b_math", "a_math"
TermsCollectionNames ==
  {(<<"O", "n", "t", "a", "r", "i", "o", "_", "M", "a", "t", "h">>),
   (<<"b", "_", "m", "a", "t", "h">>),
   (<<"a", "_", "m", "a", "t", "h">>)}

TermsRegistries ==
  UNION {{r \in [1..n -> TermsCollectionNames] :
            \A i, j \in 1..n : i # j => r[i] # r[j]} : n \in 0..MaxRegistry}

InitTerms ==
  /\ registry \in TermsRegistries
  /\ request \in [curriculum : TermsCurricula, subject : TermsSubjects,
                  top_k : RawTopKs]
  /\ pc = "validate"
  /\ NotStarted
  /\ LessonIdle
  /\ invocations = <<>>

\* the body is validated against CurriculumRequest before the endpoint runs
ValidateRequest ==
  /\ pc = "validate"
  /\ IF request.top_k >= min_top_k /\ request.top_k <= max_top_k
       THEN pc' = "resolve" /\ response' = response
       ELSE /\ pc' = "done"
            /\ response' = [kind |-> "raise",
                            exc |-> [type |-> "RequestValidationError",
                                     status_code |-> 422]]
  /\ UNCHANGED <<registry, request, collection_names, norm_curriculum,
                 norm_subject, scored_collections, resolver,
                 collection_name, engine, calls>>
  /\ UNCHANGED <<lesson_vars, invocations>>

\* a collection is deleted from the server between resolution and retrieval
DropCollection ==
  /\ pc \in {"engine", "query"}
  /\ \E i \in DOMAIN registry :
       registry' = SubSeq(registry, 1, i - 1)
                     \o SubSeq(registry, i + 1, Len(registry))
  /\ UNCHANGED <<request, pc, collection_names, norm_curriculum,
                 norm_subject, scored_collections, resolver, response,
                 collection_name, engine, calls>>
  /\ UNCHANGED <<lesson_vars, invocations>>

NextTerms ==
  \/ ValidateRequest
  \/ DropCollection
  \/ Resolve
  \/ ResolveFails
  \/ GetQueryEngine
  \/ GetQueryEngineFails
  \/ Query
  \/ QueryFails

SpecTerms == InitTerms /\ [][NextTerms]_vars

(***************************************************************************)
(* POST /lesson_plan: create_lesson_plan (app/api/endpoints.py) and        *)
(* LessonPlanGenerator (app/services/lesson_plan_service.py)               *)
(***************************************************************************)
\* the largest number of entries of the generator's lesson_plans list
MaxLessons == 2

\* num_classes: int = Field(..., gt=0, le=50)
max_num_classes == 50

\* the num_classes values a request body can carry that are explored
RawNumClasses == {0, 1, max_num_classes, max_num_classes + 1}

\* request.class_duration: "45 minutes", "1 hour", "90", "minutes",
\* "", "-5 minutes", " 30 min", "4_5 min"
ClassDurations ==
  {(<<"4", "5", " ", "m", "i", "n", "u", "t", "e", "s">>),
   (<<"1", " ", "h", "o", "u", "r">>),
   (<<"9", "0">>),
   (<<"m", "i", "n", "u", "t", "e", "s">>),
   (<<>>),
   (<<"-", "5", " ", "m", "i", "n", "u", "t", "e", "s">>),
   (<<" ", "3", "0", " ", "m", "i", "n">>),
   (<<"4", "_", "5", " ", "m", "i", "n">>)}

Digits == <<"0", "1", "2", "3", "4", "5", "6", "7", "8", "9">>

is_digit(ch) == \E i \in DOMAIN Digits : Digits[i] = ch

digit_value(ch) == (CHOOSE i \in DOMAIN Digits : Digits[i] = ch) - 1

\* str.split() without argument: the fields between runs of whitespace
RECURSIVE split_whitespace(_)
split_whitespace(s) ==
  LET t == lstrip(s)
      n == IF \E i \in DOMAIN t : t[i] \in Whitespace
             THEN (CHOOSE i \in DOMAIN t :
                     /\ t[i] \in Whitespace
                     /\ \A j \in 1..(i - 1) : t[j] \notin Whitespace) - 1
             ELSE Len(t)
  IN  IF t = <<>> THEN <<>>
      ELSE <<SubSeq(t, 1, n)>> \o split_whitespace(SubSeq(t, n + 1, Len(t)))

\* the value of a run of decimal digits that may hold single underscores
RECURSIVE digits_value(_, _)
digits_value(s, acc) ==
  IF s = <<>> THEN acc
  ELSE IF Head(s) = "_" THEN digits_value(Tail(s), acc)
  ELSE digits_value(Tail(s), 10 * acc + digit_value(Head(s)))

\* int(token) for a str without whitespace: an optional sign, then decimal
\* digits with single underscores allowed between them
parse_int(token) ==
  LET signed == token # <<>> /\ Head(token) \in {"+", "-"}
      body == IF signed THEN Tail(token) ELSE token
      well_formed ==
        /\ body # <<>>
        /\ is_digit(body[1])
        /\ is_digit(body[Len(body)])
        /\ \A i \in DOMAIN body : is_digit(body[i]) \/ body[i] = "_"
        /\ \A i \in 1..(Len(body) - 1) : ~(body[i] = "_" /\ body[i + 1] = "_")
  IN  IF ~well_formed THEN [ok |-> FALSE, value |-> 0]
      ELSE [ok |-> TRUE,
            value |-> IF signed /\ Head(token) = "-"
                        THEN 0 - digits_value(body, 0)
                        ELSE digits_value(body, 0)]

\* an exception with its message
exception(type, message) == [type |-> type, message |-> message]

\* the entries the generator can put in its lesson_plans list: a complete
\* one, one without title, one whose fields have the wrong types
LessonEntries ==
  {[has_title |-> TRUE, well_typed |-> TRUE],
   [has_title |-> FALSE, well_typed |-> TRUE],
   [has_title |-> TRUE, well_typed |-> FALSE]}

LessonLists == UNION {[1..n -> LessonEntries] : n \in 0..MaxLessons}

\* completion.choices[0].message.content, by what json.loads makes of it:
\* no JSON, a JSON array, a JSON object with or without "lesson_plans"
Contents ==
  {[json |-> "invalid", has_lesson_plans |-> FALSE, lesson_plans |-> <<>>],
   [json |-> "array", has_lesson_plans |-> FALSE, lesson_plans |-> <<>>],
   [json |-> "object", has_lesson_plans |-> FALSE, lesson_plans |-> <<>>]}
  \cup {[json |-> "object", has_lesson_plans |-> TRUE, lesson_plans |-> l] :
          l \in LessonLists}

\* _parse_response that answers an empty object when the text is no JSON
parse_response_lenient(content) ==
  IF content.json = "invalid"
    THEN [kind |-> "return",
          value |-> [json |-> "object", has_lesson_plans |-> FALSE,
                     lesson_plans |-> <<>>]]
    ELSE [kind |-> "return", value |-> content]

\* LessonPlanGenerator._parse_response
parse_response(content) ==
  IF content.json = "invalid"
    THEN [kind |-> "raise",
          exc |-> exception("ValueError",
                    "Failed to generate valid lesson plan. Please try again.")]
    ELSE [kind |-> "return", value |-> content]

\* total_duration of total_minutes
format_duration(total_minutes) ==
  LET hours == total_minutes \div 60
      minutes == total_minutes % 60
  IN  IF hours > 0 THEN <<hours, " hours ", minutes, " minutes">>
      ELSE <<minutes, " minutes">>

\* generate_lesson_plans from the parsed response on: the units, the total
\* duration and the LessonPlanResponse
build_response(req, parsed) ==
  LET entries == IF parsed.has_lesson_plans THEN parsed.lesson_plans ELSE <<>>
      units == [i \in DOMAIN entries |->
                  [title |-> IF entries[i].has_title
                               THEN <<"title ", i>> ELSE <<"Lesson ", i>>,
                   duration |-> req.class_duration]]
      tokens == split_whitespace(req.class_duration)
      first == parse_int(tokens[1])
  IN  IF parsed.json # "object"
        THEN [kind |-> "raise",
              exc |-> exception("AttributeError",
                                "'list' object has no attribute 'get'")]
      ELSE IF \E i \in DOMAIN entries : ~entries[i].well_typed
        THEN [kind |-> "raise",
              exc |-> exception("ValidationError",
                                "validation error for LessonPlanUnit")]
      ELSE IF tokens = <<>>
        THEN [kind |-> "raise",
              exc |-> exception("IndexError", "list index out of range")]
      ELSE IF ~first.ok
        THEN [kind |-> "raise",
              exc |-> exception("ValueError",
                        <<"invalid literal for int() with base 10: ",
                          tokens[1]>>)]
      ELSE [kind |-> "return",
            value |-> [success |-> TRUE,
                       lesson_plans |-> units,
                       total_duration |->
                         format_duration(Len(units) * first.value),
                       teaching_style |-> req.teaching_style]]

\* the "except Exception" clause around the body of generate_lesson_plans
outer_except(outcome) ==
  IF outcome.kind = "raise"
    THEN [kind |-> "raise",
          exc |-> exception("ValueError",
                    <<"Failed to generate lesson plans: ",
                      outcome.exc.message>>)]
    ELSE outcome

\* the "except Exception" clause around the call of the Groq API
groq_error ==
  exception("ConnectionError",
    "Unable to connect to the lesson planning service. Please try again later.")

\* generate_lesson_plans without API key
key_error ==
  exception("ConnectionError",
            "Service configuration error. Please check server logs.")

\* generate_lesson_plans once the Groq API has answered
generate_lesson_plans(req, content) ==
  LET parsed == parse_response(content)
  IN  outer_except(IF parsed.kind = "raise" THEN parsed
                   ELSE build_response(req, parsed.value))

\* the except clauses of create_lesson_plan
create_lesson_plan(outcome) ==
  IF outcome.kind = "return" THEN outcome
  ELSE IF outcome.exc.type = "ValueError"
    THEN [kind |-> "raise",
          exc |-> [type |-> "HTTPException", status_code |-> 400,
                   detail |-> [error |-> outcome.exc.message]]]
    ELSE [kind |-> "raise",
          exc |-> [type |-> "HTTPException", status_code |-> 500,
                   detail |-> [error |-> <<"Failed to generate lesson plans: ",
                                           outcome.exc.message>>]]]

\* generate_terms_plan is not being served
TermsIdle ==
  /\ registry = <<>>
  /\ request = none
  /\ pc = "idle"
  /\ NotStarted

InitLesson ==
  /\ lesson_request \in [num_classes : RawNumClasses,
                         class_duration : ClassDurations,
                         teaching_style : {"interactive"}]
  /\ lesson_pc = "validate"
  /\ groq_api_key \in BOOLEAN
  /\ groq_calls = 0
  /\ completion = none
  /\ generated = none
  /\ lesson_response = none
  /\ TermsIdle
  /\ invocations = <<>>

\* the body is validated against LessonPlanRequest before the endpoint runs
ValidateLessonRequest ==
  /\ lesson_pc = "validate"
  /\ IF lesson_request.num_classes > 0
          /\ lesson_request.num_classes <= max_num_classes
       THEN lesson_pc' = "generate" /\ lesson_response' = lesson_response
       ELSE /\ lesson_pc' = "done"
            /\ lesson_response' = [kind |-> "raise",
                                   exc |-> [type |-> "RequestValidationError",
                                            status_code |-> 422]]
  /\ UNCHANGED <<lesson_request, groq_api_key, groq_calls, completion,
                 generated>>
  /\ UNCHANGED <<registry, terms_vars, invocations>>

\* the endpoint runs while settings.GROQ_API_KEY is empty
GenerateWithoutKey ==
  /\ lesson_pc = "generate"
  /\ ~groq_api_key
  /\ generated' = [kind |-> "raise", exc |-> key_error]
  /\ lesson_response' = create_lesson_plan(generated')
  /\ lesson_pc' = "done"
  /\ UNCHANGED <<lesson_request, groq_api_key, groq_calls, completion>>
  /\ UNCHANGED <<registry, terms_vars, invocations>>

\* the endpoint runs and the call of the Groq API raises
GroqCallFails ==
  /\ lesson_pc = "generate"
  /\ groq_api_key
  /\ groq_calls' = groq_calls + 1
  /\ completion' = [kind |-> "error"]
  /\ generated' = outer_except([kind |-> "raise", exc |-> groq_error])
  /\ lesson_response' = create_lesson_plan(generated')
  /\ lesson_pc' = "done"
  /\ UNCHANGED <<lesson_request, groq_api_key>>
  /\ UNCHANGED <<registry, terms_vars, invocations>>

\* the endpoint runs and the Groq API answers
GroqCallAnswers ==
  /\ lesson_pc = "generate"
  /\ groq_api_key
  /\ \E content \in Contents :
       /\ completion' = [kind |-> "content", content |-> content]
       /\ generated' = generate_lesson_plans(lesson_request, content)
  /\ groq_calls' = groq_calls + 1
  /\ lesson_response' = create_lesson_plan(generated')
  /\ lesson_pc' = "done"
  /\ UNCHANGED <<lesson_request, groq_api_key>>
  /\ UNCHANGED <<registry, terms_vars, invocations>>

NextLesson ==
  \/ ValidateLessonRequest
  \/ GenerateWithoutKey
  \/ GroqCallFails
  \/ GroqCallAnswers

SpecLesson == InitLesson /\ [][NextLesson]_vars

(***************************************************************************)
(* Simultaneous requests: several invocations of                           *)
(* qdrant_service.get_best_matching_collection on the one QdrantService,   *)
(* while other clients create and delete collections                       *)
(***************************************************************************)
\* the number of invocations that are in progress together
MaxInvocations == 2

Invocations == 1..MaxInvocations

\* the arguments of the invocations, in turn: x/Math, x/Math, x/History
ConcurrentRequests ==
  <<[curriculum |-> <<"x">>, subject |-> <<"M", "a", "t", "h">>],
    [curriculum |-> <<"x">>, subject |-> <<"M", "a", "t", "h">>],
    [curriculum |-> <<"x">>,
     subject |-> <<"H", "i", "s", "t", "o", "r", "y">>]>>

\* the arguments of invocation p
arguments(p) == ConcurrentRequests[((p - 1) % Len(ConcurrentRequests)) + 1]

\* "ontario_math", "b_math"
ConcurrentCollectionNames ==
  {<<"o", "n", "t", "a", "r", "i", "o", "_", "m", "a", "t", "h">>,
   <<"b", "_", "m", "a", "t", "h">>}

ConcurrentRegistries ==
  {r \in UNION {[1..n -> ConcurrentCollectionNames] : n \in 0..MaxRegistry} :
     \A i, j \in DOMAIN r : i # j => r[i] # r[j]}

\* the locals of an invocation that has been entered
entered(req) ==
  [pc |-> "read",
   curriculum |-> req.curriculum,
   subject |-> req.subject,
   collection_names |-> <<>>,
   norm_curriculum |-> <<>>,
   norm_subject |-> <<>>,
   scored_collections |-> <<>>,
   outcome |-> none]

InitConcurrent ==
  /\ registry \in ConcurrentRegistries
  /\ invocations = [p \in Invocations |-> entered(arguments(p))]
  /\ request = none
  /\ pc = "idle"
  /\ NotStarted
  /\ LessonIdle

\* invocation p reads the list of collections and checks that it is not empty
ReadCollections(p) ==
  /\ invocations[p].pc = "read"
  /\ invocations' = [invocations EXCEPT
       ![p].collection_names = registry,
       ![p].pc = IF registry = <<>> THEN "done" ELSE "score",
       ![p].outcome =
          IF registry = <<>>
            THEN [kind |-> "raise",
                  exc |-> raise_exception("HTTPException", 404,
                            "No collections found in Qdrant")]
            ELSE none]
  /\ UNCHANGED <<registry, terms_vars, lesson_vars>>

\* invocation p scores the collections that exist now, not those it read
ScoreCollections_rereading(p) ==
  /\ invocations[p].pc = "score"
  /\ LET nc == normalize(invocations[p].curriculum)
         ns == normalize(invocations[p].subject)
         unsorted == [i \in DOMAIN registry |->
                        <<registry[i], score_collection(nc, ns, registry[i])>>]
     IN  invocations' = [invocations EXCEPT
           ![p].norm_curriculum = nc,
           ![p].norm_subject = ns,
           ![p].scored_collections = sort_by_score(unsorted, Len(unsorted)),
           ![p].pc = "select"]
  /\ UNCHANGED <<registry, terms_vars, lesson_vars>>

\* invocation p normalises its arguments, scores the collections it read
\* and sorts them
ScoreCollections(p) ==
  /\ invocations[p].pc = "score"
  /\ LET names == invocations[p].collection_names
         nc == normalize(invocations[p].curriculum)
         ns == normalize(invocations[p].subject)
         unsorted == [i \in DOMAIN names |->
                        <<names[i], score_collection(nc, ns, names[i])>>]
     IN  invocations' = [invocations EXCEPT
           ![p].norm_curriculum = nc,
           ![p].norm_subject = ns,
           ![p].scored_collections = sort_by_score(unsorted, Len(unsorted)),
           ![p].pc = "select"]
  /\ UNCHANGED <<registry, terms_vars, lesson_vars>>

\* invocation p returns the best match or raises
SelectBestMatch(p) ==
  /\ invocations[p].pc = "select"
  /\ LET scored == invocations[p].scored_collections
     IN  invocations' = [invocations EXCEPT
           ![p].pc = "done",
           ![p].outcome =
              IF is_good_match(scored)
                THEN [kind |-> "return", value |-> best_match(scored)]
                ELSE [kind |-> "raise",
                      exc |-> raise_exception("HTTPException", 404,
                        [error |-> "No matching collection found",
                         available_collections |->
                           invocations[p].collection_names,
                         requested_curriculum |-> invocations[p].curriculum,
                         requested_subject |-> invocations[p].subject,
                         matching_scores |-> to_dict(scored)])]]
  /\ UNCHANGED <<registry, terms_vars, lesson_vars>>

\* another client creates or deletes collections
ChangeRegistry ==
  /\ registry' \in ConcurrentRegistries \ {registry}
  /\ UNCHANGED <<invocations, terms_vars, lesson_vars>>

NextConcurrent ==
  \/ \E p \in Invocations : ReadCollections(p)
  \/ \E p \in Invocations : ScoreCollections(p)
  \/ \E p \in Invocations : SelectBestMatch(p)
  \/ ChangeRegistry

SpecConcurrent == InitConcurrent /\ [][NextConcurrent]_vars

(***************************************************************************)
(* Vocabulary of the properties                                            *)
(***************************************************************************)
\* get_best_matching_collection has run and client.get_collections() gave
\* it a list
ListWasRead ==
  /\ resolver # none
  /\ ~(resolver.kind = "raise" /\ resolver.exc = external_error)

\* the identifier "{norm_curriculum}_{norm_subject}"
ExactIdentifier == norm_curriculum \o <<"_">> \o norm_subject

\* the score the resolver computed for the candidate at place i of the list
\* it read (names are unique in a list)
ScoreOf(i) ==
  LET p == CHOOSE k \in DOMAIN scored_collections :
             scored_collections[k][1] = collection_names[i]
  IN  scored_collections[p][2]

IsMaxScore(n) ==
  /\ \E i \in DOMAIN collection_names : ScoreOf(i) = n
  /\ \A i \in DOMAIN collection_names : ScoreOf(i) <= n

Returned == resolver.kind = "return"

\* the resolver ended with the "not found" failure that carries detail
RaisedNotFound(detail) ==
  /\ resolver.kind = "raise"
  /\ resolver.exc.type = "HTTPException"
  /\ resolver.exc.status_code = 404
  /\ resolver.exc.detail = detail

\* the score table of the failure: every candidate with its score, by
\* descending score and, among equal scores, in the order of the list read
IsScoreTable(table) ==
  /\ Len(table) = Len(collection_names)
  /\ \A i \in DOMAIN collection_names :
       \E k \in DOMAIN table : table[k] = <<collection_names[i], ScoreOf(i)>>
  /\ \A k, m \in DOMAIN table :
       k < m =>
         \/ table[k][2] > table[m][2]
         \/ /\ table[k][2] = table[m][2]
            /\ \E i, j \in DOMAIN collection_names :
                 /\ i < j
                 /\ collection_names[i] = table[k][1]
                 /\ collection_names[j] = table[m][1]

(***************************************************************************)
(* C1  Fast path dominates: whenever the list read is non-empty and        *)
(* contains the identifier "{norm_curriculum}_{norm_subject}" (compared    *)
(* case-insensitively), the resolver returns that identifier, whatever     *)
(* the other candidates, their places and their scores.                    *)
(***************************************************************************)
C1_FastPathDominates ==
  (/\ ListWasRead
   /\ \E i \in DOMAIN collection_names :
        lower(collection_names[i]) = ExactIdentifier)
  => (Returned /\ lower(resolver.value) = ExactIdentifier)

(***************************************************************************)
(* C2  As claimed: a candidate whose name contains neither the normalized  *)
(* curriculum nor the normalized subject scores 0 and is never returned.   *)
(***************************************************************************)
C2_NeitherSubstringScoresZero ==
  ListWasRead =>
    \A i \in DOMAIN collection_names :
      (/\ ~contains(lower(collection_names[i]), norm_curriculum)
       /\ ~contains(lower(collection_names[i]), norm_subject))
      => (/\ ScoreOf(i) = 0
          /\ ~(Returned /\ resolver.value = collection_names[i]))

\* candidate i holds no variation of either term, and its parts are a close
\* match of at most one of the two terms
NoEvidence(i) ==
  LET name == lower(collection_names[i])
      parts == split(name, "_")
  IN  /\ ~has_term(norm_curriculum, name)
      /\ ~has_term(norm_subject, name)
      /\ \/ get_close_matches(norm_curriculum, parts) = {}
         \/ get_close_matches(norm_subject, parts) = {}

(***************************************************************************)
(* C2  As amended: a candidate whose name contains no variation of the     *)
(* normalized curriculum or subject, and whose underscore-separated parts  *)
(* closely match at most one of the two terms, scores 0 or 35 and is never *)
(* returned; when no other candidate is there the resolver fails.          *)
(***************************************************************************)
C2_NoEvidenceNeverReturned ==
  ListWasRead =>
    \A i \in DOMAIN collection_names :
      NoEvidence(i) =>
        /\ ScoreOf(i) \in {0, 35}
        /\ ~(Returned /\ resolver.value = collection_names[i])
        /\ Len(collection_names) = 1 => resolver.kind = "raise"

\* a lone candidate with a close match of one term (score 35) was refused
C2_Witness ==
  /\ ListWasRead
  /\ Len(collection_names) = 1
  /\ NoEvidence(1)
  /\ ScoreOf(1) = 35
  /\ resolver.kind = "raise"

(***************************************************************************)
(* C3  When the resolver fails during POST /terms_plan because the list is *)
(* empty or the best score is below 40, the request ends with an HTTP 404  *)
(* that carries the score table of the candidates, not with an HTTP 500.   *)
(***************************************************************************)
C3_ResolverFailureIsNotFound ==
  (pc = "done" /\ ListWasRead /\ resolver.kind = "raise")
  => /\ response.kind = "raise"
     /\ response.exc.status_code = 404
     /\ collection_names # <<>> =>
          IsScoreTable(response.exc.detail.matching_scores)

(***************************************************************************)
(* C4  When the list read is empty the resolver fails with the dedicated   *)
(* "no collections" not-found failure; nothing is returned and no          *)
(* candidate is scored.                                                    *)
(***************************************************************************)
C4_EmptyListIsNoCollections ==
  (ListWasRead /\ collection_names = <<>>)
  => /\ RaisedNotFound("No collections found in Qdrant")
     /\ scored_collections = <<>>

(***************************************************************************)
(* C5  Threshold rule: for a non-empty list the resolver returns a         *)
(* candidate exactly when the maximum score is at least 40, the returned   *)
(* candidate has the maximum score, and below 40 the resolver fails with   *)
(* the "no match" not-found failure.                                       *)
(***************************************************************************)
C5_ThresholdRule ==
  (ListWasRead /\ collection_names # <<>>)
  => /\ Returned <=> \E n \in 40..150 : IsMaxScore(n)
     /\ Returned =>
          \E i \in DOMAIN collection_names :
            /\ resolver.value = collection_names[i]
            /\ IsMaxScore(ScoreOf(i))
     /\ ~Returned =>
          /\ resolver.kind = "raise"
          /\ resolver.exc.type = "HTTPException"
          /\ resolver.exc.status_code = 404
          /\ resolver.exc.detail.error = "No matching collection found"

(***************************************************************************)
(* C6  Tie-break by input order: the resolver returns the first candidate  *)
(* of the list read that has the maximum score, and the sorted score list  *)
(* keeps candidates of equal score in the order of the list read.          *)
(***************************************************************************)
C6_TieBreakByInputOrder ==
  (ListWasRead /\ collection_names # <<>>)
  => /\ Returned =>
          \E i \in DOMAIN collection_names :
            /\ resolver.value = collection_names[i]
            /\ IsMaxScore(ScoreOf(i))
            /\ \A j \in 1..(i - 1) : ScoreOf(j) < ScoreOf(i)
     /\ IsScoreTable(scored_collections)

\* "b_math" listed before "a_math", both at the maximum: "b_math" is returned
C6_Witness ==
  /\ ListWasRead
  /\ Returned
  /\ norm_curriculum = <<"x">>
  /\ norm_subject = <<"m", "a", "t", "h">>
  /\ collection_names = << <<"b", "_", "m", "a", "t", "h">>,
                           <<"a", "_", "m", "a", "t", "h">> >>
  /\ \E i, j \in DOMAIN collection_names :
       /\ i < j
       /\ ScoreOf(i) = ScoreOf(j)
       /\ IsMaxScore(ScoreOf(i))
       /\ resolver.value = collection_names[i]

(***************************************************************************)
(* C7  As claimed: every score is one of 100, 80, 40 and 0, and a          *)
(* candidate that contains only the subject substring scores exactly 40.   *)
(***************************************************************************)
C7_ScoreIsOneRule ==
  ListWasRead =>
    \A i \in DOMAIN collection_names :
      /\ ScoreOf(i) \in {0, 40, 80, 100}
      /\ (/\ contains(lower(collection_names[i]), norm_subject)
          /\ ~contains(lower(collection_names[i]), norm_curriculum))
         => ScoreOf(i) = 40

(***************************************************************************)
(* C7  As amended: every score is 100 (the candidate equals the exact      *)
(* identifier, and only then), 95 (it equals a variation of it), or the    *)
(* sum of a substring score (80, 40 or 0) and a close-match score (70, 35  *)
(* or 0); 100 and 95 are never added to, and a candidate that contains the *)
(* subject substring scores at least 40.                                   *)
(***************************************************************************)
C7_ScoreIsRuleOrSum ==
  ListWasRead =>
    \A i \in DOMAIN collection_names :
      /\ ScoreOf(i) \in {100, 95} \cup
           {p + c : p \in {80, 40, 0}, c \in {70, 35, 0}}
      /\ ScoreOf(i) = 100 <=> lower(collection_names[i]) = ExactIdentifier
      /\ contains(lower(collection_names[i]), norm_subject)
           => ScoreOf(i) >= 40

\* a candidate with only the subject substring got 40 + 35, another one with
\* both substrings got 80 + 70
C7_Witness ==
  /\ ListWasRead
  /\ \E i, j \in DOMAIN collection_names :
       /\ contains(lower(collection_names[i]), norm_subject)
       /\ ~contains(lower(collection_names[i]), norm_curriculum)
       /\ ScoreOf(i) = 75
       /\ ScoreOf(j) = 150

\* str.isspace()
IsSpace(ch) == ch \in Whitespace

\* the normal form the claim describes: lowercased, stripped, and every run
\* of whitespace turned into one underscore
RECURSIVE CollapseRuns(_)
CollapseRuns(s) ==
  IF s = <<>> THEN <<>>
  ELSE IF IsSpace(Head(s))
    THEN <<"_">> \o CollapseRuns(lstrip(s))
    ELSE <<Head(s)>> \o CollapseRuns(Tail(s))

NormalFormClaimed(term) == CollapseRuns(strip(lower(term)))

(***************************************************************************)
(* C8  Normalization: the normalized curriculum and subject are the        *)
(* inputs lowercased, stripped, with every internal run of whitespace      *)
(* replaced by exactly one underscore, and hold no whitespace.             *)
(***************************************************************************)
C8_NormalizationCollapsesRuns ==
  (ListWasRead /\ collection_names # <<>>)
  => /\ norm_curriculum = NormalFormClaimed(request.curriculum)
     /\ norm_subject = NormalFormClaimed(request.subject)
     /\ \A i \in DOMAIN norm_curriculum : ~IsSpace(norm_curriculum[i])
     /\ \A i \in DOMAIN norm_subject : ~IsSpace(norm_subject[i])

(***************************************************************************)
(* C9  NoMatchError payload: when the best score is below 40 the failure   *)
(* carries the list read, the two requested terms as given, and the score  *)
(* of every candidate by descending score, then by input order.            *)
(***************************************************************************)
C9_NoMatchPayload ==
  (/\ ListWasRead
   /\ collection_names # <<>>
   /\ \A i \in DOMAIN collection_names : ScoreOf(i) < 40)
  => /\ resolver.kind = "raise"
     /\ resolver.exc.type = "HTTPException"
     /\ resolver.exc.detail.available_collections = collection_names
     /\ resolver.exc.detail.requested_curriculum = request.curriculum
     /\ resolver.exc.detail.requested_subject = request.subject
     /\ IsScoreTable(resolver.exc.detail.matching_scores)

\* the number of calls of the function in the call log
CallCount(name) == Cardinality({i \in DOMAIN calls : calls[i] = name})

(***************************************************************************)
(* C11  The identifier the resolver returned is handed on unchanged: it is *)
(* the collection name get_query_engine is called with and the             *)
(* collection_used of the success response; the top_k passed on is the     *)
(* request's top_k, which lies in 1..10.                                   *)
(***************************************************************************)
C11_IdentifierHandedUnchanged ==
  /\ engine # none =>
       /\ Returned
       /\ engine.collection_name = resolver.value
       /\ engine.top_k = request.top_k
       /\ engine.top_k \in 1..10
  /\ response.kind = "return" =>
       /\ Returned
       /\ response.value.collection_used = resolver.value

\* a success response for a mixed-case identifier and the largest top_k
C11_Witness ==
  /\ response.kind = "return"
  /\ engine.kind = "built"
  /\ engine.top_k = 10
  /\ resolver.value # lower(resolver.value)
  /\ response.value.collection_used = resolver.value

(***************************************************************************)
(* C12  Resolver failures are terminal: once the endpoint runs the         *)
(* resolver is called exactly once, get_query_engine and query are called  *)
(* only after the resolver returned an identifier, and after a resolver    *)
(* failure the request is over with an error and no further call.          *)
(***************************************************************************)
C12_ResolverFailureIsTerminal ==
  /\ CallCount("get_best_matching_collection") <= 1
  /\ resolver # none <=> CallCount("get_best_matching_collection") = 1
  /\ pc = "done" /\ response.kind = "return" =>
       calls = <<"get_best_matching_collection", "get_query_engine", "query">>
  /\ CallCount("get_query_engine") + CallCount("query") > 0 =>
       /\ Returned
       /\ calls[1] = "get_best_matching_collection"
  /\ (resolver # none /\ resolver.kind = "raise") =>
       /\ pc = "done"
       /\ response.kind = "raise"
       /\ engine = none
       /\ calls = <<"get_best_matching_collection">>

\* the resolver read a list, found no match, and the request ended there
C12_Witness ==
  /\ ListWasRead
  /\ collection_names # <<>>
  /\ resolver.kind = "raise"
  /\ pc = "done"
  /\ calls = <<"get_best_matching_collection">>

(***************************************************************************)
(* C16  Membership: whenever the resolver returns, the returned string is  *)
(* an element of the list it read, in that list's spelling and case.       *)
(***************************************************************************)
C16_ReturnedIsListed ==
  (resolver # none /\ Returned) => in_list(resolver.value, collection_names)

\* a name with capitals was returned as it is listed
C16_Witness ==
  /\ resolver # none
  /\ Returned
  /\ resolver.value # lower(resolver.value)
  /\ in_list(resolver.value, collection_names)

\* the exception that reached the except clauses of generate_terms_plan
RaisedInHandler ==
  IF resolver.kind = "raise" THEN resolver.exc ELSE external_error

(***************************************************************************)
(* C17  Once the endpoint runs, the request ends either with a RAGResponse *)
(* with success = true or with an HTTPException: an HTTPException that was *)
(* raised inside keeps its status code and detail, any other exception     *)
(* (also a query on a collection that was deleted meanwhile) becomes an    *)
(* HTTP 500 whose detail starts with "Failed to generate terms plan".      *)
(***************************************************************************)
C17_EndsWithResponseOrHTTPException ==
  (pc = "done" /\ resolver # none) =>
    \/ /\ response.kind = "return"
       /\ response.value.success
       /\ in_list(response.value.collection_used, registry)
    \/ /\ response.kind = "raise"
       /\ response.exc.type = "HTTPException"
       /\ IF RaisedInHandler.type = "HTTPException"
            THEN response.exc = RaisedInHandler
            ELSE /\ response.exc.status_code = 500
                 /\ response.exc.detail.error[1]
                      = "Failed to generate terms plan: "
                 /\ response.exc.detail.error[2] = str_of(RaisedInHandler)

\* the collection was deleted after it was resolved and the query failed
C17_Witness ==
  /\ pc = "done"
  /\ resolver # none
  /\ Returned
  /\ ~in_list(collection_name, registry)
  /\ calls = <<"get_best_matching_collection", "get_query_engine", "query">>
  /\ response.kind = "raise"
  /\ response.exc.status_code = 500

C14_GroqFailureIsConnectionError ==
  completion.kind = "error" =>
    /\ generated.kind = "raise"
    /\ generated.exc.type = "ConnectionError"

(***************************************************************************)
(* C18  In every successful LessonPlanResponse the number of lesson plans  *)
(* is the number of entries of the generator's lesson_plans list, every    *)
(* unit's duration is the request's class_duration, class_duration has a   *)
(* leading integer, and total_duration stands for (number of lesson plans) *)
(* x (leading integer) minutes: "H hours M minutes" with 0 <= M < 60 when  *)
(* the product is at least 60, "M minutes" otherwise.                      *)
(***************************************************************************)
C18_SuccessfulResponseShape ==
  lesson_response.kind = "return" =>
    LET value == lesson_response.value
        tokens == split_whitespace(lesson_request.class_duration)
        product == Len(value.lesson_plans) * parse_int(tokens[1]).value
        total_duration == value.total_duration
    IN  /\ value.success
        /\ Len(value.lesson_plans) = Len(completion.content.lesson_plans)
        /\ \A i \in DOMAIN value.lesson_plans :
             value.lesson_plans[i].duration = lesson_request.class_duration
        /\ tokens # <<>>
        /\ parse_int(tokens[1]).ok
        /\ IF product >= 60
             THEN /\ Len(total_duration) = 4
                  /\ total_duration[2] = " hours "
                  /\ total_duration[4] = " minutes"
                  /\ total_duration[3] >= 0
                  /\ total_duration[3] < 60
                  /\ 60 * total_duration[1] + total_duration[3] = product
             ELSE total_duration = <<product, " minutes">>

(***************************************************************************)
(* C15  Concurrent invocations of the resolver do not interfere: under any *)
(* interleaving, with the registry changing between reads, the outcome of  *)
(* every finished invocation is the outcome of running the resolver alone  *)
(* on the invocation's arguments and on the one list it read; a step of    *)
(* one invocation changes nothing of another invocation and nothing of the *)
(* registry, and no step changes an invocation's arguments or, once read,  *)
(* its list.                                                               *)
(***************************************************************************)
C15_InvocationsDoNotInterfere ==
  /\ [](\A p \in DOMAIN invocations :
          invocations[p].pc = "done" =>
            invocations[p].outcome
              = get_best_matching_collection(invocations[p].curriculum,
                  invocations[p].subject,
                  invocations[p].collection_names).outcome)
  /\ [][\A p \in DOMAIN invocations :
          /\ invocations'[p].curriculum = invocations[p].curriculum
          /\ invocations'[p].subject = invocations[p].subject
          /\ invocations[p].pc # "read" =>
               invocations'[p].collection_names
                 = invocations[p].collection_names
          /\ invocations'[p] # invocations[p] =>
               /\ registry' = registry
               /\ \A q \in DOMAIN invocations \ {p} :
                    invocations'[q] = invocations[q]]_vars

\* two invocations with the same arguments have finished with different
\* outcomes, because the registry changed between their reads, and it has
\* changed again since
C15_Witness ==
  \E p, q \in DOMAIN invocations :
    /\ p # q
    /\ invocations[p].pc = "done"
    /\ invocations[q].pc = "done"
    /\ invocations[p].curriculum = invocations[q].curriculum
    /\ invocations[p].subject = invocations[q].subject
    /\ invocations[p].collection_names # invocations[q].collection_names
    /\ invocations[p].outcome.kind = "return"
    /\ invocations[q].outcome.kind = "return"
    /\ invocations[p].outcome # invocations[q].outcome
    /\ registry # invocations[p].collection_names
    /\ registry # invocations[q].collection_names

====
